---- MODULE Spec2Model ----
(***************************************************************************)
(* Semihosting runtime bridge of pulpos (chip pulp_open): the trap         *)
(* primitive, the typed semihosting operations, the buffered console and   *)
(* the platform exit.  The host debugger is the environment: it records    *)
(* every trap it services and chooses the result it places in a0.          *)
(***************************************************************************)
EXTENDS Integers, Sequences, FiniteSets, TLC

(***************************************************************************)
(* Program constants.                                                      *)
(***************************************************************************)
\* chips/pulp_open/kernel/hal.h:22
PI_LIBC_PUTC_BUFFER_SIZE == 128

\* kernel/semihost.h:28-66, the operation numbers the wrappers use
SEMIHOSTING_SYS_OPEN == 1
SEMIHOSTING_SYS_CLOSE == 2

\* mutant: SYS_WRITEC (0x03) taken for SYS_WRITE0
SYS_WRITE0_AsWritec == 4 - 1

SEMIHOSTING_SYS_WRITE0 == 4
SEMIHOSTING_SYS_WRITE == 5
SEMIHOSTING_SYS_READ == 6
SEMIHOSTING_SYS_SEEK == 10
SEMIHOSTING_SYS_FLEN == 12
SEMIHOSTING_SYS_EXIT == 24

\* kernel/semihost.h:68-69
SEMIHOST_EXIT_SUCCESS == 131110
SEMIHOST_EXIT_ERROR == 131107

\* '\n' and the terminator, hal.c:40 and hal.c:42
NEWLINE == 10
NUL == 0

\* pulp_open is an ILP32 target: int, long, uint_t and pointers are 32 bits.
\* A 32-bit memory word or register is held as its two 16-bit halves
\* <<high, low>>; a C int or long is the signed value of such a word.
HalfWord == 2 ^ 16

(***************************************************************************)
(* C conversions, computed as the target computes them.                    *)
(***************************************************************************)
\* (uint_t) x : the 32-bit pattern of the signed value x
ToUint(x) == <<(x \div HalfWord) % HalfWord, x % HalfWord>>

\* the signed value of a 32-bit pattern: (long) and (int) of a word
Signed(w) == IF w[1] >= HalfWord \div 2
             THEN (w[1] - HalfWord) * HalfWord + w[2]
             ELSE w[1] * HalfWord + w[2]

\* (long) x and (int) x keep the 32-bit pattern of x
ToLong(x) == Signed(ToUint(x))

ToInt(x) == Signed(ToUint(x))

\* (char) c as stored in a byte of memory
ToChar(c) == c % 256

\* the int w >= 0 with its byte number k (little endian) replaced by v
SetByte(w, k, v) == LET sh == 256 ^ k
                    IN  w - ((w \div sh) % 256) * sh + v * sh

(***************************************************************************)
(* Memory layout.  Addresses are byte addresses; the linker and the        *)
(* compiler choose them, the model fixes representatives.                  *)
(***************************************************************************)
\* address of __pi_libc_buffer
BufferAddr == 8192

\* the stack slots in which a wrapper may build its args[] array
ArgsAddrs == {4096, 4112}

StackWords == UNION {{a, a + 4, a + 8} : a \in ArgsAddrs}

\* user data objects (source of write, destination of read)
DataAddrs == {12288}

\* file names in memory: name address -> the bytes at that address, each
\* with a terminating NUL; the third has bytes after its terminator
NameAddrs == {16384, 16400, 16416}

NameBytes(a) == IF a = 16384 THEN <<0, 120>>
                ELSE IF a = 16400 THEN <<97, 46, 116, 120, 116, 0>>
                ELSE <<97, 0, 98, 0>>

\* a NUL-terminated string for puts: the bytes at the pointer
PutsStrings == {<<0>>, <<104, 105, 0>>, <<97, 10, 98, 0>>, <<97, 0, 98, 0>>}

VARIABLES
    __pi_libc_buffer,        \* hal.c:25  the console buffer, indices 0..127
    __pi_libc_buffer_index,  \* hal.c:26  the write cursor
    neighbour,             \* TRUE once a store past the buffer hit another object
    stores,                \* buffer indices stored to by the last put_char
    stack,                 \* the words of the args[] stack slots
    traps,                 \* the traps the host has serviced, in issue order
    fed,                   \* the values passed to put_char, in call order
    call,                  \* the last library call: name, arguments, result
    halted,                \* "no"; "spin": in the while(1) of platform exit;
                           \* "host": the host ended the run in an exit trap
    main,                  \* the put_char call the main context is executing,
                           \* statement by statement, when an interrupt
                           \* handler may run between its statements
    stopped,               \* number of runs of the teardown hook __pi_libc_stop
    inlined                \* a caller into which block operations were inlined:
                           \* the operations in program order and how far the
                           \* compiled code has got with each kind of instruction

vars == <<__pi_libc_buffer, __pi_libc_buffer_index, neighbour, stores, stack,
          traps, fed, call, halted, main, stopped, inlined>>

\* the program state as one record, so that a function is an operator on it
Cur == [buffer |-> __pi_libc_buffer, index |-> __pi_libc_buffer_index,
        neighbour |-> neighbour, stores |-> stores, stack |-> stack,
        traps |-> traps, fed |-> fed, a0 |-> 0, halted |-> halted,
        main |-> main, stopped |-> stopped, inlined |-> inlined]

Commit(s, c) ==
    /\ __pi_libc_buffer' = s.buffer
    /\ __pi_libc_buffer_index' = s.index
    /\ neighbour' = s.neighbour
    /\ stores' = s.stores
    /\ stack' = s.stack
    /\ traps' = s.traps
    /\ fed' = s.fed
    /\ halted' = s.halted
    /\ main' = s.main
    /\ stopped' = s.stopped
    /\ inlined' = s.inlined
    /\ call' = c

(***************************************************************************)
(* The host side of a trap.                                                *)
(***************************************************************************)
\* number of argument words the host reads through a1 for an operation
\* (the host knows the operations by their published numbers)
BlockArity(op) == IF op \in {1, 5, 6} THEN 3 ELSE IF op = 10 THEN 2 ELSE 0

\* the byte the host reads at a target address
ReadByte(s, addr) ==
    IF addr >= BufferAddr /\ addr < BufferAddr + PI_LIBC_PUTC_BUFFER_SIZE
    THEN s.buffer[addr - BufferAddr]
    ELSE 120

\* the argument block as the host decodes it at the moment of the trap
HostDecode(s, op, a1) ==
    IF BlockArity(op) = 0 \/ a1 \notin ArgsAddrs THEN <<>>
    ELSE [i \in 1..BlockArity(op) |-> s.stack[a1 + 4 * (i - 1)]]

\* the bytes a write trap transmits: block[3] bytes from address block[2]
HostPayload(s, op, block) ==
    IF op = 5 /\ Len(block) = 3
    THEN [i \in 1..Signed(block[3]) |-> ReadByte(s, Signed(block[2]) + i - 1)]
    ELSE <<>>

(***************************************************************************)
(* kernel/semihost.h                                                       *)
(***************************************************************************)
\* mutant: a0 is an input of the asm only, so the operation number comes back
semihost_result_not_read(s, n, a1, r) ==
    LET block == HostDecode(s, n, a1)
        t == [op |-> n, a1 |-> a1, block |-> block,
              payload |-> HostPayload(s, n, block), stopped |-> s.stopped]
    IN  [s EXCEPT !.traps = Append(@, t), !.a0 = ToLong(n)]

\* __pi_libc_semihost(n, _a1): a0 = n, a1 = _a1, ebreak; the host services
\* the trap and leaves its result r in a0, which is returned (field a0).
\* The trap record keeps what the host can observe at the trap: registers,
\* the decoded block, the payload, and how often teardown has run by then.
__pi_libc_semihost(s, n, a1, r) ==
    LET block == HostDecode(s, n, a1)
        t == [op |-> n, a1 |-> a1, block |-> block,
              payload |-> HostPayload(s, n, block), stopped |-> s.stopped]
    IN  [s EXCEPT !.traps = Append(@, t), !.a0 = ToLong(r)]

\* uint_t args[3] = {w1, w2, w3} built at stack address sp
StoreArgs(s, sp, ws) ==
    [s EXCEPT !.stack = [a \in StackWords |->
        IF a >= sp /\ a < sp + 4 * Len(ws) THEN ws[(a - sp) \div 4 + 1] ELSE @[a]]]

\* mutant: the buffer address and the descriptor change places in args[]
semihost_write_swapped(s, sp, fd, buf, len, r) ==
    LET s1 == StoreArgs(s, sp, <<ToUint(ToLong(buf)), ToUint(ToLong(fd)), ToUint(ToLong(len))>>)
        s2 == __pi_libc_semihost(s1, 5, ToLong(sp), r)
    IN  [s2 EXCEPT !.a0 = ToInt(@)]

__pi_libc_semihost_write(s, sp, fd, buf, len, r) ==
    LET s1 == StoreArgs(s, sp, <<ToUint(ToLong(fd)), ToUint(ToLong(buf)), ToUint(ToLong(len))>>)
        s2 == __pi_libc_semihost(s1, SEMIHOSTING_SYS_WRITE, ToLong(sp), r)
    IN  [s2 EXCEPT !.a0 = ToInt(@)]

RECURSIVE strlen_from(_, _)
\* strlen: the number of bytes before the first NUL, scanning from byte i
strlen_from(bytes, i) == IF bytes[i] = 0 THEN 0 ELSE 1 + strlen_from(bytes, i + 1)

strlen(name) == strlen_from(NameBytes(name), 1)

\* every wrapper leaves its return value in field a0
__pi_libc_semihost_write0(s, print_string, r) ==
    [__pi_libc_semihost(s, SEMIHOSTING_SYS_WRITE0, ToLong(print_string), r) EXCEPT !.a0 = 0]

\* mutant: the length counts the terminating NUL
semihost_open_len_with_nul(s, sp, name, mode, r) ==
    LET len == ToUint(strlen(name) + 1)
        s1 == StoreArgs(s, sp, <<ToUint(ToLong(name)), ToUint(mode), len>>)
        s2 == __pi_libc_semihost(s1, 1, ToLong(sp), r)
    IN  [s2 EXCEPT !.a0 = ToInt(@)]

__pi_libc_semihost_open(s, sp, name, mode, r) ==
    LET len == ToUint(strlen(name))
        s1 == StoreArgs(s, sp, <<ToUint(ToLong(name)), ToUint(mode), len>>)
        s2 == __pi_libc_semihost(s1, SEMIHOSTING_SYS_OPEN, ToLong(sp), r)
    IN  [s2 EXCEPT !.a0 = ToInt(@)]

__pi_libc_semihost_close(s, fd, r) ==
    LET s2 == __pi_libc_semihost(s, SEMIHOSTING_SYS_CLOSE, ToLong(fd), r)
    IN  [s2 EXCEPT !.a0 = ToInt(@)]

__pi_libc_semihost_read(s, sp, fd, buf, len, r) ==
    LET s1 == StoreArgs(s, sp, <<ToUint(ToLong(fd)), ToUint(ToLong(buf)), ToUint(ToLong(len))>>)
        s2 == __pi_libc_semihost(s1, SEMIHOSTING_SYS_READ, ToLong(sp), r)
    IN  [s2 EXCEPT !.a0 = ToInt(@)]

__pi_libc_semihost_seek(s, sp, fd, pos, r) ==
    LET s1 == StoreArgs(s, sp, <<ToUint(ToLong(fd)), ToUint(pos)>>)
        s2 == __pi_libc_semihost(s1, SEMIHOSTING_SYS_SEEK, ToLong(sp), r)
    IN  [s2 EXCEPT !.a0 = ToInt(@)]

__pi_libc_semihost_flen(s, fd, r) ==
    LET s2 == __pi_libc_semihost(s, SEMIHOSTING_SYS_FLEN, ToLong(fd), r)
    IN  [s2 EXCEPT !.a0 = ToInt(@)]

__pi_libc_semihost_exit(s, code, r) ==
    LET s2 == __pi_libc_semihost(s, SEMIHOSTING_SYS_EXIT, ToLong(code), r)
    IN  [s2 EXCEPT !.a0 = ToInt(@)]

(***************************************************************************)
(* chips/pulp_open/kernel/hal.h, hal.c                                     *)
(***************************************************************************)
\* mutant: the status itself is passed to the exit trap
platform_exit_raw_status(s, status, r) ==
    LET s1 == __pi_libc_semihost_exit(s, status, r)
    IN  [s1 EXCEPT !.halted = "spin", !.a0 = 0]

\* mutant: no while(1) behind the exit trap
platform_exit_returns(s, status, r) ==
    LET code == IF status = 0 THEN SEMIHOST_EXIT_SUCCESS ELSE SEMIHOST_EXIT_ERROR
        s1 == __pi_libc_semihost_exit(s, code, r)
    IN  [s1 EXCEPT !.a0 = 0]

\* mutant: the pending console bytes are dropped on the way out
platform_exit_resets_cursor(s, status, r) ==
    LET code == IF status = 0 THEN SEMIHOST_EXIT_SUCCESS ELSE SEMIHOST_EXIT_ERROR
        s1 == __pi_libc_semihost_exit(s, code, r)
    IN  [s1 EXCEPT !.halted = "spin", !.a0 = 0, !.index = 0]

\* __pi_init_platform_exit(status): the exit trap, then while(1)
__pi_init_platform_exit(s, status, r) ==
    LET code == IF status = 0 THEN SEMIHOST_EXIT_SUCCESS ELSE SEMIHOST_EXIT_ERROR
        s1 == __pi_libc_semihost_exit(s, code, r)
    IN  [s1 EXCEPT !.halted = "spin", !.a0 = 0]

\* __pi_libc_write: the result of the write is dropped
__pi_libc_write(s, sp, fd, buf, len, r) ==
    [__pi_libc_semihost_write(s, sp, fd, buf, len, r) EXCEPT !.a0 = 0]

\* What a store past the end of __pi_libc_buffer can hit: the object the
\* linker placed after it.  hal.c:26 defines __pi_libc_buffer_index right
\* after the buffer; with another object there the cursor is not affected.
\* With "index" the cursor is read back from memory after the store (a build
\* that keeps it in a register behaves, for the console, like "other").
OobTargets == {"other", "index"}

\* buffer[i] = v
BufferStore(s, i, v, ub) ==
    LET s1 == [s EXCEPT !.stores = @ \cup {i}]
    IN  IF i >= 0 /\ i < PI_LIBC_PUTC_BUFFER_SIZE
        THEN [s1 EXCEPT !.buffer[i] = v]
        ELSE IF ub = "index" /\ i - PI_LIBC_PUTC_BUFFER_SIZE \in 0..3
             THEN [s1 EXCEPT !.index = SetByte(@, i - PI_LIBC_PUTC_BUFFER_SIZE, v)]
             ELSE [s1 EXCEPT !.neighbour = TRUE]

\* mutant: the cursor is reset only when the host wrote every byte
FlushBody_RetainOnShort(s, sp, ub, r) ==
    LET s3 == BufferStore(s, s.index, NUL, ub)
        s4 == __pi_libc_write(s3, sp, 1, BufferAddr, s3.index, r)
    IN  IF r = s3.index THEN [s4 EXCEPT !.index = 0] ELSE s4

\* hal.c:42-45, the body of the if
FlushBody(s, sp, ub, r) ==
    LET s3 == BufferStore(s, s.index, NUL, ub)
        s4 == __pi_libc_write(s3, sp, 1, BufferAddr, s3.index, r)
    IN  [s4 EXCEPT !.index = 0]

\* mutant: the test looks at the byte stored, not at the int passed
FlushTest_ByteCompared(s, c) == s.index = PI_LIBC_PUTC_BUFFER_SIZE \/ ToChar(c) = NEWLINE

\* mutant: the buffer counts as full one byte early
FlushTest_OneEarly(s, c) == s.index = PI_LIBC_PUTC_BUFFER_SIZE - 1 \/ c = NEWLINE

\* the condition of hal.c:40
FlushTest(s, c) == s.index = PI_LIBC_PUTC_BUFFER_SIZE \/ c = NEWLINE

\* __pi_libc_fputc_safe(c, stream); returns 0 (field a0)
__pi_libc_fputc_safe(s, c, sp, ub, r) ==
    LET s0 == [s EXCEPT !.fed = Append(@, c), !.stores = {}]
        s1 == BufferStore(s0, s0.index, ToChar(c), ub)
        s2 == [s1 EXCEPT !.index = @ + 1]
        s5 == IF FlushTest(s2, c) THEN FlushBody(s2, sp, ub, r) ELSE s2
    IN  [s5 EXCEPT !.a0 = 0]

(***************************************************************************)
(* lib/libc/minimal/io.c                                                   *)
(***************************************************************************)
RECURSIVE puts_loop(_, _, _, _, _, _)
\* the do-while of puts, at character number i of the string
puts_loop(s, str, i, sp, ub, r) ==
    LET c == str[i]
    IN  IF c = 0
        THEN __pi_libc_fputc_safe(s, NEWLINE, sp, ub, r)
        ELSE puts_loop(__pi_libc_fputc_safe(s, c, sp, ub, r), str, i + 1, sp, ub, r)

\* puts(s); returns 0
puts(s, str, sp, ub, r) == [puts_loop(s, str, 1, sp, ub, r) EXCEPT !.a0 = 0]

\* fputc(c, stream); returns 0
fputc(s, c, sp, ub, r) == [__pi_libc_fputc_safe(s, c, sp, ub, r) EXCEPT !.a0 = 0]

\* putchar(c) is fputc(c, stdout)
putchar(s, c, sp, ub, r) == fputc(s, c, sp, ub, r)

\* __pi_libc_stop(): empty body
__pi_libc_stop(s) == s

\* __pi_init_stop(status), defined outside this source tree: the process-wide
\* teardown, then the platform exit
__pi_init_stop(s, status, r) ==
    LET s1 == __pi_libc_stop([s EXCEPT !.stopped = @ + 1])
    IN  __pi_init_platform_exit(s1, status, r)

\* exit(status)
exit(s, status, r) == __pi_init_stop(s, status, r)

\* mutant: abort ends the run as a success
abort_as_exit_success(s, r) == exit(s, 0, r)

\* abort()
abort(s, r) == exit(s, 0 - 1, r)

(***************************************************************************)
(* Bounds of the model and the inputs of the environment.                  *)
(***************************************************************************)
\* put_char calls in a run of the console
MaxCalls == 132

\* put_char calls after the first one that passes something else than Filler
MaxTail == 3

\* library calls (puts, fputc, putchar) in a run
MaxLibCalls == 3

\* semihosting operations in a run
MaxOps == 2

\* calls (put_char, exit, abort, platform exit) in the life of a process
MaxProcCalls == 3

\* put_char calls, of the main context and of interrupt handlers together,
\* in a run with interrupts
MaxIrqCalls == 3

\* block operations inlined back to back into one caller
MaxInlined == 2

\* the letter a run of the console may pass any number of times
Fillers == {97}

\* 266 = 0x10A: an int whose low byte is the newline
Chars == Fillers \cup {NEWLINE, 266}

\* what the host may leave in a0
HostResults == {-1, 0, 128, 2147483647}

Fds == {1, 3}

Lens == {0, 1, 127, 128}

Modes == {0, 4}

Positions == {0, 7}

Statuses == {0, 1, -1, 256}

ExitCodes == {SEMIHOST_EXIT_SUCCESS, SEMIHOST_EXIT_ERROR, 1}

\* cursor values at which a run of library calls may start: the state after
\* that many put_char(Filler) calls
Prefills == {0, 126, 127}

(***************************************************************************)
(* What the host has received and what is still buffered.                  *)
(***************************************************************************)
RECURSIVE Payloads(_)
\* the payloads of the write traps of a trap sequence, concatenated
Payloads(ts) ==
    IF ts = <<>> THEN <<>>
    ELSE (IF Head(ts).op = 5 THEN Head(ts).payload ELSE <<>>) \o Payloads(Tail(ts))

WriteTraps == {i \in 1..Len(traps) : traps[i].op = 5}

\* the trap serviced last
LastTrap == traps[Len(traps)]

\* the value the host reads from a 32-bit word of the argument block
HostWord(w) == w[1] * 65536 + w[2]

\* buffer[0..cursor), read as the host reads memory
Pending == [i \in 1..__pi_libc_buffer_index |-> ReadByte(Cur, BufferAddr + i - 1)]

\* the bytes passed to put_char
FedBytes == [i \in 1..Len(fed) |-> fed[i] % 256]

NoCall == [name |-> "none", args |-> <<>>, sp |-> 0, seq |-> 0, before |-> 0,
           fedBefore |-> 0, outLen |-> 0, idxBefore |-> 0, ret |-> 0, a0 |-> 0]

\* no caller with inlined block operations has been entered
NoInline == [ops |-> <<>>, stored |-> 0, fenced |-> 0, trapped |-> 0]

\* the main context is between two put_char calls
MainIdle == [pc |-> "idle", c |-> 0, sp |-> 0, reentered |-> FALSE]

\* the record of a call made in the current state that ends in state s;
\* a0 is what the host left in the result register
CallMade(name, args, sp, r, s) ==
    [name |-> name, args |-> args, sp |-> sp, seq |-> call.seq + 1,
     before |-> Len(traps), fedBefore |-> Len(fed),
     outLen |-> Len(Payloads(traps)) + __pi_libc_buffer_index,
     idxBefore |-> __pi_libc_buffer_index,
     ret |-> s.a0, a0 |-> r]

\* the host's result of the write trap of a console call, 0 when the call
\* issued no trap
FlushResult(s, r) == IF Len(s.traps) > Len(traps) THEN r ELSE 0

InitPrefilled(p) ==
    /\ __pi_libc_buffer = [i \in 0..PI_LIBC_PUTC_BUFFER_SIZE - 1 |-> IF i < p THEN 97 ELSE 0]
    /\ __pi_libc_buffer_index = p
    /\ neighbour = FALSE
    /\ stores = {}
    /\ stack = [a \in StackWords |-> ToUint(0)]
    /\ traps = <<>>
    /\ fed = [i \in 1..p |-> 97]
    /\ call = NoCall
    /\ halted = "no"
    /\ main = MainIdle
    /\ stopped = 0
    /\ inlined = NoInline

\* the state after construction: hal.c:25-26, zero-initialised statics
Init == InitPrefilled(0)

InitLib == \E p \in Prefills : InitPrefilled(p)

\* position of the first non-filler value passed to put_char, 0 when none
FirstSpecial == IF \A i \in 1..Len(fed) : fed[i] \in Fillers THEN 0
                ELSE CHOOSE i \in 1..Len(fed) :
                        fed[i] \notin Fillers /\ \A j \in 1..(i - 1) : fed[j] \in Fillers

\* put_char(c) from the current state reaches the body of the if of hal.c:40;
\* a call that does not has no stack slot, store past the buffer or host
\* result to choose
Flushes(c) == FlushTest([index |-> __pi_libc_buffer_index + 1], c)

\* a caller passes c to put_char
PutChar ==
    /\ halted = "no"
    /\ Len(fed) < MaxCalls
    /\ FirstSpecial = 0 \/ Len(fed) - FirstSpecial < MaxTail
    /\ \E c \in Chars, sp \in ArgsAddrs, ub \in OobTargets, r \in HostResults :
          /\ Flushes(c) \/ (sp = 4096 /\ ub = "other" /\ r = 0)
          /\ LET s == __pi_libc_fputc_safe(Cur, c, sp, ub, r)
             IN  Commit(s, CallMade("put_char", <<c>>, 0, 0, s))

Next == PutChar

Spec == Init /\ [][Next]_vars

(***************************************************************************)
(* The library surface: puts, fputc, putchar.                              *)
(***************************************************************************)
Puts ==
    /\ halted = "no"
    /\ call.seq < MaxLibCalls
    /\ \E str \in PutsStrings, sp \in ArgsAddrs, ub \in OobTargets, r \in HostResults :
          LET s == puts(Cur, str, sp, ub, r)
          IN  Commit(s, CallMade("puts", <<str>>, 0, 0, s))

Fputc ==
    /\ halted = "no"
    /\ call.seq < MaxLibCalls
    /\ \E c \in Chars, sp \in ArgsAddrs, ub \in OobTargets, r \in HostResults :
          LET s == fputc(Cur, c, sp, ub, r)
          IN  Commit(s, CallMade("fputc", <<c>>, 0, 0, s))

Putchar ==
    /\ halted = "no"
    /\ call.seq < MaxLibCalls
    /\ \E c \in Chars, sp \in ArgsAddrs, ub \in OobTargets, r \in HostResults :
          LET s == putchar(Cur, c, sp, ub, r)
          IN  Commit(s, CallMade("putchar", <<c>>, 0, 0, s))

NextLib == Puts \/ Fputc \/ Putchar

SpecLib == InitLib /\ [][NextLib]_vars

(***************************************************************************)
(* The semihosting operations, called directly, and the platform exit.     *)
(***************************************************************************)
CanCall == halted = "no" /\ Len(traps) < MaxOps

Write0 ==
    /\ CanCall
    /\ \E str \in NameAddrs, r \in HostResults :
          LET s == __pi_libc_semihost_write0(Cur, str, r)
          IN  Commit(s, CallMade("write0", <<str>>, 0, 0, s))

Open ==
    /\ CanCall
    /\ \E name \in NameAddrs, mode \in Modes, sp \in ArgsAddrs, r \in HostResults :
          LET s == __pi_libc_semihost_open(Cur, sp, name, mode, r)
          IN  Commit(s, CallMade("open", <<name, mode>>, sp, r, s))

Close ==
    /\ CanCall
    /\ \E fd \in Fds, r \in HostResults :
          LET s == __pi_libc_semihost_close(Cur, fd, r)
          IN  Commit(s, CallMade("close", <<fd>>, 0, r, s))

Read ==
    /\ CanCall
    /\ \E fd \in Fds, buf \in DataAddrs, len \in {0, 128}, sp \in ArgsAddrs, r \in HostResults :
          LET s == __pi_libc_semihost_read(Cur, sp, fd, buf, len, r)
          IN  Commit(s, CallMade("read", <<fd, buf, len>>, sp, r, s))

Write ==
    /\ CanCall
    /\ \E fd \in Fds, buf \in DataAddrs, len \in Lens, sp \in ArgsAddrs, r \in HostResults :
          LET s == __pi_libc_semihost_write(Cur, sp, fd, buf, len, r)
          IN  Commit(s, CallMade("write", <<fd, buf, len>>, sp, r, s))

Seek ==
    /\ CanCall
    /\ \E fd \in Fds, pos \in Positions, sp \in ArgsAddrs, r \in HostResults :
          LET s == __pi_libc_semihost_seek(Cur, sp, fd, pos, r)
          IN  Commit(s, CallMade("seek", <<fd, pos>>, sp, r, s))

Flen ==
    /\ CanCall
    /\ \E fd \in Fds, r \in HostResults :
          LET s == __pi_libc_semihost_flen(Cur, fd, r)
          IN  Commit(s, CallMade("flen", <<fd>>, 0, r, s))

\* the exit operation called directly; the host ends the run in the trap or
\* returns from it
Exit ==
    /\ CanCall
    /\ \E code \in ExitCodes, r \in HostResults, back \in BOOLEAN :
          LET s == __pi_libc_semihost_exit(Cur, code, r)
          IN  IF back
              THEN Commit(s, CallMade("exit", <<code>>, 0, r, s))
              ELSE Commit([s EXCEPT !.halted = "host", !.a0 = 0],
                          CallMade("exit", <<code>>, 0, 0, s))

\* __pi_init_platform_exit(status): never returns
PlatformExit ==
    /\ CanCall
    /\ \E status \in Statuses, r \in HostResults, back \in BOOLEAN :
          LET s == __pi_init_platform_exit(Cur, status, r)
              e == IF back THEN s ELSE [s EXCEPT !.halted = "host"]
          IN  Commit(e, CallMade("platform_exit", <<status>>, 0, 0, e))

NextSemihost ==
    \/ Write0 \/ Open \/ Close \/ Read \/ Write \/ Seek \/ Flen \/ Exit
    \/ PlatformExit

SpecSemihost == Init /\ [][NextSemihost]_vars

(***************************************************************************)
(* The life of a process: console output, then one of the ways to end.     *)
(***************************************************************************)
\* put_char(c); the call record keeps the stack slot of the write and the
\* host's result of the flush
ProcPutChar ==
    /\ halted = "no"
    /\ call.seq < MaxProcCalls
    /\ \E c \in Chars, sp \in ArgsAddrs, ub \in OobTargets, r \in HostResults :
          /\ Flushes(c) \/ (sp = 4096 /\ ub = "other" /\ r = 0)
          /\ LET s == __pi_libc_fputc_safe(Cur, c, sp, ub, r)
             IN  Commit(s, CallMade("put_char", <<c>>, sp, FlushResult(s, r), s))

\* exit(status): the host ends the run in the exit trap or returns from it
LibcExit ==
    /\ halted = "no"
    /\ call.seq < MaxProcCalls
    /\ \E status \in Statuses, r \in HostResults, back \in BOOLEAN :
          LET s == exit(Cur, status, r)
              e == IF back THEN s ELSE [s EXCEPT !.halted = "host"]
          IN  Commit(e, CallMade("libc_exit", <<status>>, 0, 0, e))

\* abort()
Abort ==
    /\ halted = "no"
    /\ call.seq < MaxProcCalls
    /\ \E r \in HostResults, back \in BOOLEAN :
          LET s == abort(Cur, r)
              e == IF back THEN s ELSE [s EXCEPT !.halted = "host"]
          IN  Commit(e, CallMade("abort", <<>>, 0, 0, e))

NextProcess == ProcPutChar \/ LibcExit \/ Abort \/ PlatformExit

SpecProcess == InitLib /\ [][NextProcess]_vars

(***************************************************************************)
(* put_char with interrupts: the main context executes hal.c:37-45         *)
(* statement by statement, and between two of its statements an interrupt  *)
(* handler may run a complete put_char.                                    *)
(***************************************************************************)
\* the main context moves to statement pc of its call
MainAt(s, pc) == [s EXCEPT !.main.pc = pc]

\* A run is followed while calls start with the cursor at most one past the
\* last slot; beyond that every store of a call is outside the array.
CursorInReach == __pi_libc_buffer_index <= PI_LIBC_PUTC_BUFFER_SIZE

\* the main context enters put_char(c) and executes hal.c:37
MainStore ==
    /\ halted = "no"
    /\ main.pc = "idle"
    /\ CursorInReach
    /\ call.seq < MaxIrqCalls
    /\ \E c \in Chars, sp \in ArgsAddrs, ub \in OobTargets :
          LET s0 == [Cur EXCEPT !.fed = Append(@, c), !.stores = {},
                                !.main.c = c, !.main.sp = sp]
              s1 == MainAt(BufferStore(s0, s0.index, ToChar(c), ub), "stored")
          IN  Commit(s1, CallMade("put_char", <<c>>, sp, 0, s1))

\* hal.c:38
MainIncrement ==
    /\ main.pc = "stored"
    /\ Commit(MainAt([Cur EXCEPT !.index = @ + 1], "incremented"), call)

\* hal.c:40: into the body of the if, or past it to the return
MainTest ==
    /\ main.pc = "incremented"
    /\ Commit(MainAt(Cur, IF FlushTest(Cur, main.c) THEN "flushing" ELSE "idle"), call)

\* hal.c:42
MainTerminate ==
    /\ main.pc = "flushing"
    /\ \E ub \in OobTargets :
          Commit(MainAt(BufferStore(Cur, __pi_libc_buffer_index, NUL, ub), "terminated"), call)

\* hal.c:44
MainWrite ==
    /\ main.pc = "terminated"
    /\ \E r \in HostResults :
          Commit(MainAt(__pi_libc_write(Cur, main.sp, 1, BufferAddr, __pi_libc_buffer_index, r),
                        "written"), call)

\* hal.c:45, then the return
MainReset ==
    /\ main.pc = "written"
    /\ Commit(MainAt([Cur EXCEPT !.index = 0], "idle"), call)

\* an interrupt between two statements of the main context's call: the
\* handler runs put_char(c) to its end
Isr ==
    /\ halted = "no"
    /\ main.pc # "idle"
    /\ CursorInReach
    /\ call.seq < MaxIrqCalls
    /\ \E c \in Chars, sp \in ArgsAddrs, ub \in OobTargets, r \in HostResults :
          LET s == __pi_libc_fputc_safe(Cur, c, sp, ub, r)
              e == [s EXCEPT !.main.reentered = TRUE, !.stores = stores \cup @]
          IN  Commit(e, CallMade("isr_put_char", <<c>>, sp, 0, e))

NextIrq ==
    \/ MainStore \/ MainIncrement \/ MainTest \/ MainTerminate \/ MainWrite
    \/ MainReset \/ Isr

SpecIrq == InitLib /\ [][NextIrq]_vars

(***************************************************************************)
(* Block operations inlined into one caller.  The wrappers are static      *)
(* inline; each one stores its args[], executes the barrier                *)
(* asm volatile("" ::: "memory") and then the trap asm.  The trap asm       *)
(* (semihost.h:81-88) is volatile but names no "memory" clobber and no      *)
(* memory operand, so the compiler keeps the asm statements in order and    *)
(* keeps every store on its side of each barrier, and is otherwise free to  *)
(* place stores: the stores of the next operation, which follow the trap   *)
(* in the program, may be emitted before it.  The slot of an args[] array   *)
(* is free for reuse once its wrapper's barrier has passed.                 *)
(***************************************************************************)
\* the operations a caller may contain: name, arguments, slot of args[]
InlineOps ==
    {[name |-> n, args |-> a, sp |-> sp] :
        n \in {"open"}, a \in {<<16400, 4>>}, sp \in ArgsAddrs}
    \cup {[name |-> n, args |-> a, sp |-> sp] :
        n \in {"read", "write"}, a \in {<<3, 12288, 128>>}, sp \in ArgsAddrs}
    \cup {[name |-> n, args |-> a, sp |-> sp] :
        n \in {"seek"}, a \in {<<3, 7>>}, sp \in ArgsAddrs}

\* the initialiser of args[] in the wrapper of operation o
ArgsOf(o) ==
    CASE o.name = "open" ->
           <<ToUint(ToLong(o.args[1])), ToUint(o.args[2]), ToUint(strlen(o.args[1]))>>
      [] o.name \in {"read", "write"} ->
           <<ToUint(ToLong(o.args[1])), ToUint(ToLong(o.args[2])), ToUint(ToLong(o.args[3]))>>
      [] o.name = "seek" ->
           <<ToUint(ToLong(o.args[1])), ToUint(o.args[2])>>

\* the operation number the wrapper of operation o passes
SysOf(o) ==
    CASE o.name = "open" -> SEMIHOSTING_SYS_OPEN
      [] o.name = "read" -> SEMIHOSTING_SYS_READ
      [] o.name = "write" -> SEMIHOSTING_SYS_WRITE
      [] o.name = "seek" -> SEMIHOSTING_SYS_SEEK

\* a caller with its inlined operations is entered
InlineEnter ==
    /\ halted = "no"
    /\ inlined = NoInline
    /\ \E n \in 1..MaxInlined : \E ops \in [1..n -> InlineOps] :
          Commit([Cur EXCEPT !.inlined.ops = ops], call)

\* the stores of the next args[] initialiser are executed: they stay in
\* program order and behind the barrier of the operation before
EmitStores ==
    /\ inlined.stored < Len(inlined.ops)
    /\ inlined.stored <= inlined.fenced
    /\ LET o == inlined.ops[inlined.stored + 1]
       IN  Commit([StoreArgs(Cur, o.sp, ArgsOf(o)) EXCEPT !.inlined.stored = @ + 1], call)

\* the barrier of the next wrapper is passed: its stores are done, and the
\* asm statements before it have been executed
EmitBarrier ==
    /\ inlined.fenced < inlined.stored
    /\ inlined.fenced <= inlined.trapped
    /\ Commit([Cur EXCEPT !.inlined.fenced = @ + 1], call)

\* the trap of the next wrapper is executed, after its barrier
EmitTrap ==
    /\ inlined.trapped < inlined.fenced
    /\ \E r \in {0 - 1, 0} :
          LET o == inlined.ops[inlined.trapped + 1]
              s == __pi_libc_semihost(Cur, SysOf(o), ToLong(o.sp), r)
              e == [s EXCEPT !.a0 = ToInt(@), !.inlined.trapped = @ + 1]
          IN  Commit(e, CallMade(o.name, o.args, o.sp, r, e))

NextInline == InlineEnter \/ EmitStores \/ EmitBarrier \/ EmitTrap

SpecInline == Init /\ [][NextInline]_vars

(***************************************************************************)
(* Console claims, specification Spec: put_char calls from the empty       *)
(* buffer.                                                                 *)
(***************************************************************************)
NoNewlineFed == \A i \in 1..Len(fed) : fed[i] # 10

\* C1: the payloads of all write traps so far, in issue order, followed by
\* buffer[0..cursor), are exactly the bytes passed to put_char, in order.
C1_BytePreservation == Payloads(traps) \o Pending = FedBytes

\* C2: after fewer than 128 put_char calls, none of them passing a newline,
\* the write operation has not been invoked.
C2_NoFlushBelowCapacity ==
    (Len(fed) < 128 /\ NoNewlineFed) => WriteTraps = {}

\* C2 witness: 127 calls without newline have been made and nothing was written
C2_Witness == Len(fed) = 127 /\ NoNewlineFed /\ traps = <<>> /\ __pi_libc_buffer_index = 127

\* the call just made passed the first newline, as call number k + 1 <= 128
FirstNewlineJustFed ==
    /\ call.name = "put_char"
    /\ Len(fed) \in 1..128
    /\ fed[Len(fed)] = 10
    /\ \A i \in 1..(Len(fed) - 1) : fed[i] # 10

\* C3: when the first newline is passed at position k < 128, no flush occurred
\* before that call and exactly one occurs during it, which transmits k + 1
\* bytes, the last of them the newline.
C3_NewlineFlush ==
    FirstNewlineJustFed =>
        /\ call.before = 0
        /\ Cardinality(WriteTraps) = 1
        /\ Len(traps) = 1
        /\ Len(traps[1].payload) = Len(fed)
        /\ traps[1].payload[Len(fed)] = 10

\* C4: after exactly 128 calls without newline exactly one flush has occurred,
\* during the last call; it transmitted 128 bytes and the cursor is 0.
C4_FullFlush ==
    (Len(fed) = 128 /\ NoNewlineFed) =>
        /\ call.before = 0
        /\ Cardinality(WriteTraps) = 1
        /\ Len(traps) = 1
        /\ Len(traps[1].payload) = 128
        /\ __pi_libc_buffer_index = 0

\* C15: every store of a put_char call into the console buffer, the appended
\* byte and the terminator alike, targets an index i with 0 <= i < 128.
C15_StoresInBounds ==
    \A i \in stores : 0 <= i /\ i < 128

C17_BetweenCalls ==
    /\ 0 <= __pi_libc_buffer_index
    /\ __pi_libc_buffer_index < 128
    /\ \A i \in 1..Len(Pending) : Pending[i] # 10

\* C18: the trap of a flushing put_char call is write(1, buffer address, n)
\* with n the number of bytes appended since the previous flush, 1 <= n <= 128,
\* and it transmits exactly those n bytes: the terminator stored behind them
\* is not among them.
C18_FlushLength ==
    (call.name = "put_char" /\ Len(traps) > call.before) =>
        LET n == call.idxBefore + 1
        IN  /\ LastTrap.op = 5
            /\ Len(LastTrap.block) = 3
            /\ HostWord(LastTrap.block[1]) = 1
            /\ HostWord(LastTrap.block[2]) = BufferAddr
            /\ HostWord(LastTrap.block[3]) = n
            /\ 1 <= HostWord(LastTrap.block[3])
            /\ HostWord(LastTrap.block[3]) <= 128
            /\ LastTrap.payload = SubSeq(FedBytes, Len(fed) - n + 1, Len(fed))

(***************************************************************************)
(* Library claims, specification SpecLib.                                  *)
(***************************************************************************)
\* the console output stream: what was transmitted, then what is buffered
Stream == Payloads(traps) \o Pending

\* the number of bytes of a string in memory before its first NUL
CStrLen(bytes) == CHOOSE n \in 0..(Len(bytes) - 1) :
                     bytes[n + 1] = 0 /\ \A i \in 1..n : bytes[i] # 0

\* C6: puts(s) passes to put_char the characters of s before its first NUL,
\* in order, then one newline and nothing else; puts("") makes the console
\* output stream (transmitted or buffered) exactly one newline byte longer.
C6_Puts ==
    call.name = "puts" =>
        LET str == call.args[1]
            n == CStrLen(str)
        IN  /\ SubSeq(fed, call.fedBefore + 1, Len(fed)) = SubSeq(str, 1, n) \o <<10>>
            /\ n = 0 => /\ Len(Stream) = call.outLen + 1
                        /\ Stream[Len(Stream)] = 10

(***************************************************************************)
(* Semihosting claims, specification SpecSemihost.                         *)
(***************************************************************************)
\* C5: platform_exit(status) issues exactly one trap, with operation code
\* 0x18 and argument 0x20026 when status is 0 and 0x20023 otherwise.
C5_PlatformExit ==
    call.name = "platform_exit" =>
        /\ Len(traps) = call.before + 1
        /\ LastTrap.op = 24
        /\ LastTrap.a1 = (IF call.args[1] = 0 THEN 131110 ELSE 131107)
        /\ LastTrap.a1 \in {131110, 131107}

\* C5 witness: platform_exit(256) has trapped with the ERROR code
C5_Witness ==
    /\ call.name = "platform_exit"
    /\ call.args[1] = 256
    /\ LastTrap.op = 24
    /\ LastTrap.a1 = 131107

\* C7: the argument block of write(1, buf, len), len in {0, 1, 127, 128},
\* read by the host at the trap, is the three words fd, address of buf, len
\* in that order; the trap has operation code 0x05 and carries the address
\* of the block.
C7_WriteBlock ==
    (call.name = "write" /\ call.args[1] = 1 /\ call.args[3] \in {0, 1, 127, 128}) =>
        /\ LastTrap.op = 5
        /\ LastTrap.a1 = call.sp
        /\ Len(LastTrap.block) = 3
        /\ [i \in 1..3 |-> HostWord(LastTrap.block[i])] = call.args

\* C7 witness: write(1, buf, 128) was the second operation, its block built
\* over the words of an earlier one
C7_Witness ==
    /\ call.name = "write"
    /\ call.args[1] = 1
    /\ call.args[3] = 128
    /\ Len(traps) = 2
    /\ traps[1].a1 = call.sp
    /\ HostWord(LastTrap.block[3]) = 128

\* C8: open(name, mode) issues one trap with operation code 0x01 whose
\* argument block is name address, mode, name length, the length being the
\* number of bytes of the name before its NUL (0 for the empty name).
C8_OpenBlock ==
    call.name = "open" =>
        /\ Len(traps) = call.before + 1
        /\ LastTrap.op = 1
        /\ LastTrap.a1 = call.sp
        /\ Len(LastTrap.block) = 3
        /\ HostWord(LastTrap.block[1]) = call.args[1]
        /\ HostWord(LastTrap.block[2]) = call.args[2]
        /\ HostWord(LastTrap.block[3]) = CStrLen(NameBytes(call.args[1]))

\* C8 witness: the empty name was opened and the block carries length 0
C8_Witness ==
    /\ call.name = "open"
    /\ NameBytes(call.args[1])[1] = 0
    /\ HostWord(LastTrap.block[3]) = 0

\* the published operation numbers
PublishedCode(name) ==
    CASE name = "open" -> 1
      [] name = "close" -> 2
      [] name = "write0" -> 4
      [] name = "write" -> 5
      [] name = "read" -> 6
      [] name = "seek" -> 10
      [] name = "flen" -> 12
      [] name = "exit" -> 24

SemihostOps == {"write0", "open", "close", "read", "write", "seek", "flen", "exit"}

\* C9: every semihosting operation issues exactly one trap per call, and
\* the trap carries the published operation code of the operation.
C9_OneTrapPerCall ==
    call.name \in SemihostOps =>
        /\ Len(traps) = call.before + 1
        /\ LastTrap.op = PublishedCode(call.name)

\* C9 witness: two operations were called and two traps serviced, the last
\* one a seek
C9_Witness ==
    /\ call.name = "seek"
    /\ call.seq = 2
    /\ Len(traps) = 2
    /\ LastTrap.op = 10

\* C10: open, close, read, write, seek and flen return the value the host
\* left in the result register, whatever it is, after a single trap.
C10_RawResult ==
    call.name \in {"open", "close", "read", "write", "seek", "flen"} =>
        /\ call.ret = call.a0
        /\ Len(traps) = call.before + 1

\* C10 witness: a read returned the host's error indicator -1
C10_Witness ==
    /\ call.name = "read"
    /\ call.a0 = -1
    /\ call.ret = -1

\* C19: a platform_exit call issues its one trap and does not return, whether
\* the host ends the run in the trap or returns from it; after it nothing
\* happens any more: no call, no trap, no change of state.
C19_ExitTerminal ==
    [][/\ call.name # "platform_exit"
       /\ call'.name = "platform_exit" =>
             /\ halted' \in {"spin", "host"}
             /\ Len(traps') = Len(traps) + 1]_vars

\* C19 witness: the host returned from the exit trap of platform_exit, which
\* was the first operation of the run, and the caller spins
C19_Witness ==
    /\ call.name = "platform_exit"
    /\ halted = "spin"
    /\ Len(traps) = 1
    /\ Len(traps) < MaxOps
    /\ LastTrap.op = 24

(***************************************************************************)
(* Process claims, specification SpecProcess.                              *)
(***************************************************************************)
\* the console of a state record: everything put_char can change
Console(s) == <<s.buffer, s.index, s.neighbour, s.stack, s.traps, s.fed>>

\* C11: every put_char call returns 0; a call that flushes leaves the cursor
\* at 0 after exactly one write trap, and the state it leaves is the state it
\* would have left for any other result of the host (negative, zero, short,
\* huge): nothing is kept in the buffer and nothing is sent again.
C11_ResultIgnored ==
    [][call'.name = "put_char" =>
         /\ call'.ret = 0
         /\ Len(traps') > Len(traps) =>
               /\ Len(traps') = Len(traps) + 1
               /\ __pi_libc_buffer_index' = 0
               /\ \E ub \in OobTargets : \A r \in HostResults :
                     Console(__pi_libc_fputc_safe(Cur, call'.args[1], call'.sp, ub, r))
                        = Console(Cur)']_vars

\* C11 witness: the flush of the full buffer got the error indicator -1 from
\* the host, and the call returned 0 with the cursor at 0
C11_Witness ==
    /\ call.name = "put_char"
    /\ call.idxBefore = 127
    /\ Len(traps) = call.before + 1
    /\ call.a0 = 0 - 1
    /\ call.ret = 0
    /\ __pi_libc_buffer_index = 0

\* C13: exit(status) runs the teardown and then the platform exit with the
\* same status: teardown has run exactly once when the single exit trap is
\* taken, the trap carries SUCCESS for status 0 and ERROR otherwise, and the
\* call never returns; teardown runs at most once in the life of a process;
\* abort() does the same as exit(-1), so its trap carries ERROR.
C13_ExitPath ==
    /\ stopped <= 1
    /\ call.name \in {"libc_exit", "abort"} =>
          /\ stopped = 1
          /\ Len(traps) = call.before + 1
          /\ LastTrap.op = 24
          /\ LastTrap.stopped = 1
          /\ halted # "no"
          /\ LastTrap.a1 = (IF call.name = "libc_exit" /\ call.args[1] = 0
                            THEN 131110 ELSE 131107)

\* C13 witness: abort() after console output; teardown ran once, the exit trap
\* carried ERROR and the host returned from it
C13_Witness ==
    /\ call.name = "abort"
    /\ call.seq > 1
    /\ stopped = 1
    /\ LastTrap.op = 24
    /\ LastTrap.a1 = 131107
    /\ halted = "spin"

\* C20: a platform_exit call leaves the console buffer and the cursor as they
\* were and issues no write trap: the only trap it adds is the exit trap, so
\* the bytes pending at the call are not transmitted then, nor later, since
\* nothing runs after it.
C20_NoFlushAtExit ==
    [][/\ call'.name = "platform_exit" =>
             /\ __pi_libc_buffer' = __pi_libc_buffer
             /\ __pi_libc_buffer_index' = __pi_libc_buffer_index
             /\ Payloads(traps') = Payloads(traps)
             /\ traps' = Append(traps, traps'[Len(traps')])
             /\ traps'[Len(traps')].op = 24
       /\ call.name = "platform_exit" => Payloads(traps') = Payloads(traps)]_vars

\* C20 witness: platform_exit was called with two bytes pending; they are
\* still in the buffer, were never transmitted, and the process has ended
C20_Witness ==
    /\ call.name = "platform_exit"
    /\ call.seq = 3
    /\ call.idxBefore = 2
    /\ __pi_libc_buffer_index = 2
    /\ Len(Payloads(traps)) + 2 = Len(fed)
    /\ halted # "no"

(***************************************************************************)
(* Re-entrancy, specification SpecIrq.                                     *)
(***************************************************************************)
\* C12: as long as no interrupt handler has re-entered put_char, between
\* two calls the bytes transmitted followed by the bytes buffered are the
\* bytes passed to put_char, in call order (the second half of the claim;
\* the first half, that re-entry can corrupt the output, is the reachability
\* of C12_RaceCorrupts).
C12_NoReentryNoCorruption ==
    (main.pc = "idle" /\ ~main.reentered) => Stream = FedBytes

\* a handler re-entered put_char, every store stayed inside the buffer, both
\* calls are over and the output is not what was passed
C12_RaceCorrupts ==
    /\ main.pc = "idle"
    /\ main.reentered
    /\ ~neighbour
    /\ stores \subseteq 0..(PI_LIBC_PUTC_BUFFER_SIZE - 1)
    /\ Stream # FedBytes

(***************************************************************************)
(* Visibility of the argument block, specification SpecInline.             *)
(***************************************************************************)
\* C14: at every trap of open, read, write or seek the block the host reads
\* through a1 is the block that call's wrapper stored: its stores are
\* complete before the trap and no other store reaches the block before the
\* trap has been serviced.
C14_BlockVisible ==
    (inlined.trapped > 0 /\ call.name \in {"open", "read", "write", "seek"}) =>
        /\ LastTrap.a1 = call.sp
        /\ LastTrap.block = ArgsOf(inlined.ops[inlined.trapped])

\* the stores of a trapped operation were complete at its trap: the first
\* operation of a caller always finds its own block when the next one uses
\* another slot
C14_StoresBeforeTrap ==
    /\ inlined.trapped = 2
    /\ inlined.ops[1].sp # inlined.ops[2].sp
    /\ traps[1].block = ArgsOf(inlined.ops[1])
    /\ traps[2].block = ArgsOf(inlined.ops[2])

====
